---- MODULE Spec2Model ----
(***************************************************************************)
(* Model of the Robson thin router (src/main.c): main() either prints the  *)
(* welcome banner, or builds a delegated argument vector for robson-go     *)
(* (translating a legacy flag in argv[1]) and replaces the process image.  *)
(* C arrays keep their C indices: argv is a function 0..argc-1, new_argv   *)
(* a function 0..argc once allocated.                                      *)
(***************************************************************************)
EXTENDS Integers, FiniteSets, Sequences, TLC

\* Largest argc the model enumerates.
MaxArgc == 4

\* Strings the caller may supply as user arguments.
ArgStrings == {"--help", "--report", "--say", "--buy", "--sell",
               "help", "buy", "status", "AAPL", "10", "--verbose"}

\* Program invocation name argv[0].
ProgName == "robson"

\* The C NULL pointer, and the content of a slot malloc left unwritten.
NULL == "NULL"
UNINIT == "UNINIT"

\* errno values execvp(3) can fail with (execve(2) and PATH search), with
\* their glibc strerror text as printed by perror. ESUCCESS is errno 0:
\* glibc's execvp returns -1 without setting errno when it skips every
\* PATH entry (e.g. a single entry longer than PATH_MAX).
Errnos == {"ENOENT", "EACCES", "ENOTDIR", "ELOOP", "ETXTBSY", "ENOEXEC",
           "E2BIG", "ENOMEM", "ENAMETOOLONG", "EPERM", "EIO", "ELIBBAD",
           "EISDIR", "EINVAL", "EMFILE", "ENFILE", "ESUCCESS"}
StrError(e) ==
    CASE e = "ENOENT"       -> "No such file or directory"
      [] e = "EACCES"       -> "Permission denied"
      [] e = "ENOTDIR"      -> "Not a directory"
      [] e = "ELOOP"        -> "Too many levels of symbolic links"
      [] e = "ETXTBSY"      -> "Text file busy"
      [] e = "ENOEXEC"      -> "Exec format error"
      [] e = "E2BIG"        -> "Argument list too long"
      [] e = "ENOMEM"       -> "Cannot allocate memory"
      [] e = "ENAMETOOLONG" -> "File name too long"
      [] e = "EPERM"        -> "Operation not permitted"
      [] e = "EIO"          -> "Input/output error"
      [] e = "ELIBBAD"      -> "Accessing a corrupted shared library"
      [] e = "EISDIR"       -> "Is a directory"
      [] e = "EINVAL"       -> "Invalid argument"
      [] e = "EMFILE"       -> "Too many open files"
      [] e = "ENFILE"       -> "Too many open files in system"
      [] e = "ESUCCESS"     -> "Success"

DelegateName == "robson-go"

BannerLines == <<"Welcome to Robson 0.01",
                 "Usage: robson <subcommand> [options]",
                 "Try: robson help">>

AllocFailMsg == "Memory allocation failed"
HintMsg == "Make sure robson-go is installed and in your PATH"
PerrorMsg(e) == "Failed to execute robson-go: " \o StrError(e)

\* Copy-paste slip: "--buy" mapped to "sell".
translate_legacy_flag_bad(arg) ==
    IF arg = "--help" THEN "help"
    ELSE IF arg = "--report" THEN "report"
    ELSE IF arg = "--say" THEN "say"
    ELSE IF arg = "--buy" THEN "sell"
    ELSE IF arg = "--sell" THEN "sell"
    ELSE NULL

translate_legacy_flag(arg) ==
    IF arg = "--help" THEN "help"
    ELSE IF arg = "--report" THEN "report"
    ELSE IF arg = "--say" THEN "say"
    ELSE IF arg = "--buy" THEN "buy"
    ELSE IF arg = "--sell" THEN "sell"
    ELSE NULL

VARIABLES
    pc,          \* position in main()
    argc,        \* main's argc
    argv,        \* main's argv, [0..argc-1 -> string]
    argv0,       \* the caller's argument vector as passed in (ghost)
    new_argv,    \* the delegated vector, [0..argc -> string] once allocated
    written,     \* indices of new_argv written so far (ghost)
    oob,         \* some write fell outside new_argv's argc+1 slots (ghost)
    translated,  \* result of translate_legacy_flag(argv[1])
    i,           \* copy loop counter
    allocState,  \* "none" | "allocated" | "failed" | "freed"
    freeCount,   \* number of free(new_argv) calls
    execCalls,   \* number of execvp calls
    execArgv,    \* the vector handed to the last execvp call
    execErr,     \* errno after a failed execvp
    out,         \* lines written to stdout
    err,         \* lines written to stderr
    exitStatus   \* status main returned, -1 while running / after replacement

vars == <<pc, argc, argv, argv0, new_argv, written, oob, translated, i,
          allocState, freeCount, execCalls, execArgv, execErr, out, err,
          exitStatus>>

Init ==
    /\ \E n \in 1..MaxArgc :
         \E a \in [1..(n - 1) -> ArgStrings] :
            /\ argc = n
            /\ argv = [k \in 0..(n - 1) |-> IF k = 0 THEN ProgName ELSE a[k]]
    /\ argv0 = argv
    /\ pc = "start"
    /\ new_argv = <<>>
    /\ written = {}
    /\ oob = FALSE
    /\ translated = NULL
    /\ i = 0
    /\ allocState = "none"
    /\ freeCount = 0
    /\ execCalls = 0
    /\ execArgv = <<>>
    /\ execErr = "none"
    /\ out = <<>>
    /\ err = <<>>
    /\ exitStatus = -1

\* new_argv[k] = v; a write outside 0..argc is undefined behaviour, recorded in oob.
WriteSlot(k, v) ==
    IF k \in 0..argc
    THEN /\ new_argv' = [new_argv EXCEPT ![k] = v]
         /\ written' = written \cup {k}
         /\ UNCHANGED oob
    ELSE /\ oob' = TRUE
         /\ UNCHANGED <<new_argv, written>>

\* Banner path returning 1.
Banner_bad ==
    /\ pc = "start"
    /\ argc < 2
    /\ out' = BannerLines
    /\ exitStatus' = 1
    /\ pc' = "done"
    /\ UNCHANGED <<argc, argv, argv0, new_argv, written, oob, translated, i,
                   allocState, freeCount, execCalls, execArgv, execErr, err>>

\* if (argc < 2) { printf(...); return 0; }
Banner ==
    /\ pc = "start"
    /\ argc < 2
    /\ out' = BannerLines
    /\ exitStatus' = 0
    /\ pc' = "done"
    /\ UNCHANGED <<argc, argv, argv0, new_argv, written, oob, translated, i,
                   allocState, freeCount, execCalls, execArgv, execErr, err>>

\* new_argv = malloc(sizeof(char*) * (argc + 1)) succeeds
AllocOk ==
    /\ pc = "start"
    /\ argc >= 2
    /\ new_argv' = [k \in 0..argc |-> UNINIT]
    /\ allocState' = "allocated"
    /\ pc' = "set0"
    /\ UNCHANGED <<argc, argv, argv0, written, oob, translated, i,
                   freeCount, execCalls, execArgv, execErr, out, err, exitStatus>>

\* Allocation failure returning 0.
AllocFail_bad ==
    /\ pc = "start"
    /\ argc >= 2
    /\ allocState' = "failed"
    /\ err' = Append(err, AllocFailMsg)
    /\ exitStatus' = 0
    /\ pc' = "done"
    /\ UNCHANGED <<argc, argv, argv0, new_argv, written, oob, translated, i,
                   freeCount, execCalls, execArgv, execErr, out>>

\* malloc returns NULL: fprintf(stderr, ...); return 1;
AllocFail ==
    /\ pc = "start"
    /\ argc >= 2
    /\ allocState' = "failed"
    /\ err' = Append(err, AllocFailMsg)
    /\ exitStatus' = 1
    /\ pc' = "done"
    /\ UNCHANGED <<argc, argv, argv0, new_argv, written, oob, translated, i,
                   freeCount, execCalls, execArgv, execErr, out>>

\* new_argv[0] = "robson-go";
SetDelegateName ==
    /\ pc = "set0"
    /\ WriteSlot(0, DelegateName)
    /\ pc' = "translate"
    /\ UNCHANGED <<argc, argv, argv0, translated, i, allocState, freeCount,
                   execCalls, execArgv, execErr, out, err, exitStatus>>

\* translated = translate_legacy_flag(argv[1]);
TranslateFirst ==
    /\ pc = "translate"
    /\ translated' = translate_legacy_flag(argv[1])
    /\ pc' = "branch"
    /\ UNCHANGED <<argc, argv, argv0, new_argv, written, oob, i, allocState,
                   freeCount, execCalls, execArgv, execErr, out, err, exitStatus>>

\* Translated branch copying from i = 1, overwriting the translation.
BranchTranslated_bad ==
    /\ pc = "branch"
    /\ translated # NULL
    /\ WriteSlot(1, translated)
    /\ i' = 1
    /\ pc' = "copy"
    /\ UNCHANGED <<argc, argv, argv0, translated, allocState, freeCount,
                   execCalls, execArgv, execErr, out, err, exitStatus>>

\* if (translated != NULL) { new_argv[1] = translated; for (i = 2; ...) }
BranchTranslated ==
    /\ pc = "branch"
    /\ translated # NULL
    /\ WriteSlot(1, translated)
    /\ i' = 2
    /\ pc' = "copy"
    /\ UNCHANGED <<argc, argv, argv0, translated, allocState, freeCount,
                   execCalls, execArgv, execErr, out, err, exitStatus>>

\* Passthrough branch copying from i = 2, skipping the subcommand.
BranchPassthrough_bad ==
    /\ pc = "branch"
    /\ translated = NULL
    /\ i' = 2
    /\ pc' = "copy"
    /\ UNCHANGED <<argc, argv, argv0, new_argv, written, oob, translated,
                   allocState, freeCount, execCalls, execArgv, execErr, out,
                   err, exitStatus>>

\* else { for (i = 1; ...) }
BranchPassthrough ==
    /\ pc = "branch"
    /\ translated = NULL
    /\ i' = 1
    /\ pc' = "copy"
    /\ UNCHANGED <<argc, argv, argv0, new_argv, written, oob, translated,
                   allocState, freeCount, execCalls, execArgv, execErr, out,
                   err, exitStatus>>

\* Loop body translating every argument, not only argv[1].
CopyArg_translating ==
    /\ pc = "copy"
    /\ i < argc
    /\ WriteSlot(i, IF translate_legacy_flag(argv[i]) # NULL
                     THEN translate_legacy_flag(argv[i]) ELSE argv[i])
    /\ i' = i + 1
    /\ UNCHANGED <<pc, argc, argv, argv0, translated, allocState, freeCount,
                   execCalls, execArgv, execErr, out, err, exitStatus>>

\* Loop body with an off-by-one source index.
CopyArg_shifted ==
    /\ pc = "copy"
    /\ i < argc
    /\ WriteSlot(i, argv[i - 1])
    /\ i' = i + 1
    /\ UNCHANGED <<pc, argc, argv, argv0, translated, allocState, freeCount,
                   execCalls, execArgv, execErr, out, err, exitStatus>>

\* loop body: new_argv[i] = argv[i]; i++
CopyArg ==
    /\ pc = "copy"
    /\ i < argc
    /\ WriteSlot(i, argv[i])
    /\ i' = i + 1
    /\ UNCHANGED <<pc, argc, argv, argv0, translated, allocState, freeCount,
                   execCalls, execArgv, execErr, out, err, exitStatus>>

\* Terminator written one past the end: new_argv[argc + 1] = NULL.
Terminate_bad ==
    /\ pc = "copy"
    /\ i >= argc
    /\ WriteSlot(argc + 1, NULL)
    /\ pc' = "exec"
    /\ UNCHANGED <<argc, argv, argv0, translated, i, allocState, freeCount,
                   execCalls, execArgv, execErr, out, err, exitStatus>>

\* loop exit: new_argv[argc] = NULL;
Terminate ==
    /\ pc = "copy"
    /\ i >= argc
    /\ WriteSlot(argc, NULL)
    /\ pc' = "exec"
    /\ UNCHANGED <<argc, argv, argv0, translated, i, allocState, freeCount,
                   execCalls, execArgv, execErr, out, err, exitStatus>>

\* execvp("robson-go", new_argv) replaces the process image (never returns)
ExecReplaced ==
    /\ pc = "exec"
    /\ execCalls' = execCalls + 1
    /\ execArgv' = new_argv
    /\ pc' = "replaced"
    /\ UNCHANGED <<argc, argv, argv0, new_argv, written, oob, translated, i,
                   allocState, freeCount, execErr, out, err, exitStatus>>

\* execvp returns -1 with errno set
ExecFailed ==
    /\ pc = "exec"
    /\ execCalls' = execCalls + 1
    /\ execArgv' = new_argv
    /\ \E e \in Errnos : execErr' = e
    /\ pc' = "execfailed"
    /\ UNCHANGED <<argc, argv, argv0, new_argv, written, oob, translated, i,
                   allocState, freeCount, out, err, exitStatus>>

\* Failure path that forgets free(new_argv).
ReportFailure_leak ==
    /\ pc = "execfailed"
    /\ err' = err \o <<PerrorMsg(execErr), HintMsg>>
    /\ allocState' = "freed"
    /\ exitStatus' = 1
    /\ pc' = "done"
    /\ UNCHANGED <<argc, argv, argv0, new_argv, written, oob, translated, i,
                   execCalls, execArgv, execErr, out, freeCount>>

\* Failure path returning 0.
ReportFailure_zero ==
    /\ pc = "execfailed"
    /\ err' = err \o <<PerrorMsg(execErr), HintMsg>>
    /\ freeCount' = freeCount + 1
    /\ allocState' = "freed"
    /\ exitStatus' = 0
    /\ pc' = "done"
    /\ UNCHANGED <<argc, argv, argv0, new_argv, written, oob, translated, i,
                   execCalls, execArgv, execErr, out>>

\* perror(...); fprintf(stderr, hint); free(new_argv); return 1;
ReportFailure ==
    /\ pc = "execfailed"
    /\ err' = err \o <<PerrorMsg(execErr), HintMsg>>
    /\ freeCount' = freeCount + 1
    /\ allocState' = "freed"
    /\ exitStatus' = 1
    /\ pc' = "done"
    /\ UNCHANGED <<argc, argv, argv0, new_argv, written, oob, translated, i,
                   execCalls, execArgv, execErr, out>>

Next ==
    \/ Banner
    \/ AllocOk
    \/ AllocFail
    \/ SetDelegateName
    \/ TranslateFirst
    \/ BranchTranslated
    \/ BranchPassthrough
    \/ CopyArg
    \/ Terminate
    \/ ExecReplaced
    \/ ExecFailed
    \/ ReportFailure

Spec == Init /\ [][Next]_vars

\* main() runs to completion on a single thread: every enabled step is taken.
LiveSpec == Spec /\ WF_vars(Next)

(***************************************************************************)
(* Properties                                                              *)
(***************************************************************************)

\* The five legacy flags and their modern subcommands.
LegacyTable == ("--help" :> "help") @@ ("--report" :> "report")
               @@ ("--say" :> "say") @@ ("--buy" :> "buy") @@ ("--sell" :> "sell")

IsLegacy(s) == s \in DOMAIN LegacyTable

\* C1: with argc < 2 main prints the banner, returns 0, allocates nothing
\* and never calls execvp.
C1_NoArgBanner ==
    argc < 2 =>
        /\ allocState = "none"
        /\ new_argv = <<>>
        /\ execCalls = 0
        /\ pc \in {"start", "done"}
        /\ pc = "done" =>
             /\ out = BannerLines
             /\ err = <<>>
             /\ exitStatus = 0

C1_Witness == pc = "done" /\ argc = 1

\* C2: when argv[1] is a legacy flag, execvp receives
\* ["robson-go", T(argv[1]), argv[2], ..., argv[argc-1], NULL].
C2_LegacyVector ==
    (execCalls >= 1 /\ IsLegacy(argv0[1])) =>
        execArgv = [k \in 0..argc |->
                      IF k = 0 THEN "robson-go"
                      ELSE IF k = 1 THEN LegacyTable[argv0[1]]
                      ELSE IF k < argc THEN argv0[k]
                      ELSE NULL]

C2_Witness ==
    /\ execCalls = 1
    /\ argv0 = (0 :> "robson" @@ 1 :> "--buy" @@ 2 :> "AAPL" @@ 3 :> "10")

\* C3: when argv[1] is not a legacy flag, execvp receives
\* ["robson-go", argv[1], ..., argv[argc-1], NULL].
C3_PassthroughVector ==
    (execCalls >= 1 /\ ~IsLegacy(argv0[1])) =>
        execArgv = [k \in 0..argc |->
                      IF k = 0 THEN "robson-go"
                      ELSE IF k < argc THEN argv0[k]
                      ELSE NULL]

C3_Witness == execCalls = 1 /\ argc = 3 /\ argv0[1] = "status"

\* C4: translate_legacy_flag maps exactly the five legacy flags to their
\* subcommands and every other string to NULL.
C4_TranslatorTable ==
    (pc \in {"branch", "copy", "exec", "replaced", "execfailed"}
       \/ (pc = "done" /\ execCalls >= 1)) =>
        translated = IF IsLegacy(argv[1]) THEN LegacyTable[argv[1]] ELSE NULL

C4_Witness == pc = "branch" /\ argv[1] = "--buy"

\* C5 (as stated): every argument at positions 1..argc-1 that is a legacy
\* flag appears translated in the delegated vector.
C5_AllFlagsTranslated ==
    execCalls >= 1 =>
        \A k \in 1..(argc - 1) :
            IsLegacy(argv0[k]) => execArgv[k] = LegacyTable[argv0[k]]

\* C5 (amended): only argv[1] is translated; every argument at positions
\* 2..argc-1 is passed verbatim, legacy flags included.
C5_OnlyFirstTranslated ==
    execCalls >= 1 =>
        /\ execArgv[1] = IF IsLegacy(argv0[1]) THEN LegacyTable[argv0[1]]
                         ELSE argv0[1]
        /\ \A k \in 2..(argc - 1) : execArgv[k] = argv0[k]

C5_Witness == execCalls = 1 /\ argc = 3 /\ IsLegacy(argv0[2])

\* C6: after a failed execvp main reports the errno text and the robson-go
\* hint on stderr, frees new_argv exactly once, returns 1, and never retries.
C6_ExecFailure ==
    /\ freeCount <= 1
    /\ execCalls <= 1
    /\ (pc = "done" /\ execCalls >= 1) =>
         /\ err = <<PerrorMsg(execErr), HintMsg>>
         /\ freeCount = 1
         /\ exitStatus = 1
         /\ execCalls = 1

C6_Witness == pc = "done" /\ execCalls = 1

\* C7: on allocation failure main writes an error to stderr and returns 1
\* without calling execvp or writing any slot.
C7_AllocFailure ==
    allocState = "failed" =>
        /\ execCalls = 0
        /\ written = {}
        /\ pc = "done"
        /\ err = <<AllocFailMsg>>
        /\ exitStatus = 1

C7_Witness == allocState = "failed" /\ pc = "done" /\ argc = 3

\* C8: every write to new_argv is inside its argc+1 slots; when execvp is
\* called all slots 0..argc are written and only slot argc is NULL.
C8_VectorBounds ==
    /\ ~oob
    /\ written \subseteq 0..argc
    /\ execCalls >= 1 =>
         /\ written = 0..argc
         /\ \A k \in 0..argc : (execArgv[k] = NULL) <=> (k = argc)

C8_Witness == execCalls = 1 /\ argc = 3

\* C9: every run reaches exactly one terminal outcome (returned or replaced)
\* and stays there, execvp is attempted at most once, and main returns 0
\* only on the banner path.
C9_StateMachine ==
    /\ <>(pc \in {"done", "replaced"})
    /\ [][(pc \in {"done", "replaced"}) => (UNCHANGED vars)]_vars
    /\ [](execCalls <= 1)
    /\ [](exitStatus = 0 => (out = BannerLines /\ allocState = "none"))

C9_Witness == pc = "replaced" /\ argc = 2

\* C10: argv is never modified, and every copied slot of new_argv holds
\* the original argument.
C10_ArgvUnchanged ==
    /\ argv = argv0
    /\ execCalls >= 1 =>
         /\ \A k \in 2..(argc - 1) : execArgv[k] = argv0[k]
         /\ (translated = NULL => execArgv[1] = argv0[1])

C10_Witness == execCalls = 1 /\ argc = 3 /\ translated = NULL

====
